---- MODULE Spec2Model ----
(***************************************************************************)
(* Model of the example HTTP servers of golang-api-study.                  *)
(*                                                                         *)
(*  - gpt-1/main.go, documented CRUD server (lines 120-240): items,        *)
(*    findItemByID, getItems, getItem, createItem, deleteItem, main.       *)
(*  - gpt-1/main.go, compiled program (lines 43-105): itemsTop,            *)
(*    getItemsTop, getItemTop, mainTop.                                    *)
(*  - the users server (users, getUserHandler, createUserHandler).         *)
(*  - tiago/1/main.go: ServeHTTP.                                          *)
(*  - the concurrent API handler (fetchData, handler).                     *)
(*                                                                         *)
(* A path or an id string is a sequence of one-character strings, a JSON   *)
(* value is a tagged record, a response is [code, ctype, body].            *)
(***************************************************************************)
EXTENDS Integers, Sequences, FiniteSets, TLC

VARIABLES
    items,      \* gpt-1 documented server: var items []Item
    users,      \* users server: var users []User
    req,        \* the last request served: [prog, method, path, body]
    resp,       \* the response to it: [code, ctype, body]
    lastId,     \* id returned by the latest successful createItem, 0 if none
    arrays,     \* concurrent createItem: the backing arrays allocated so far
    hdr,        \* concurrent createItem: slice header of items [arr, len, cap]
    cpc,        \* concurrent createItem: position of each request goroutine
    cbody,      \* concurrent createItem: request body of each goroutine
    cnew,       \* concurrent createItem: local newItem of each goroutine
    chdr,       \* concurrent createItem: slice header held by append
    hpc,        \* handler: position of the handler goroutine
    hi,         \* handler: loop variable i
    fpc,        \* handler: position of each fetch goroutine
    fdata,      \* handler: value returned by fetchData in each goroutine
    kpc,        \* handler: position of the closer goroutine
    wg,         \* handler: sync.WaitGroup counter
    results,    \* handler: contents of the buffered channel
    closed,     \* handler: results has been closed
    response,   \* handler: var response []Data
    panicked    \* handler: a goroutine panicked

seqVars  == <<items, users, req, resp, lastId>>
concVars == <<arrays, hdr, cpc, cbody, cnew, chdr>>
chanVars == <<hpc, hi, fpc, fdata, kpc, wg, results, closed, response, panicked>>

vars == <<seqVars, concVars, chanVars>>

----------------------------------------------------------------------------
(* Bounds *)

MaxItems == 3       \* createItem is not offered once len(items) reaches this
MaxUsers == 3       \* no append to users once len(users) reaches this
NumCreators == 2    \* concurrent create requests in SpecConc

----------------------------------------------------------------------------
(* Strings as sequences of characters *)

Digits == <<"0", "1", "2", "3", "4", "5", "6", "7", "8", "9">>

IsDigit(c) == \E i \in 1..10 : Digits[i] = c

DigitVal(c) == (CHOOSE i \in 1..10 : Digits[i] = c) - 1

HasPrefix(s, p) == Len(s) >= Len(p) /\ SubSeq(s, 1, Len(p)) = p

TrimPrefix(s, p) == IF HasPrefix(s, p) THEN SubSeq(s, Len(p) + 1, Len(s)) ELSE s

RECURSIVE DigitsValue(_)
DigitsValue(s) ==
    IF s = <<>> THEN 0
    ELSE DigitsValue(SubSeq(s, 1, Len(s) - 1)) * 10 + DigitVal(s[Len(s)])

\* strconv.Atoi: optional sign, then one or more decimal digits
Atoi(s) ==
    LET signed == s # <<>> /\ s[1] \in {"+", "-"}
        ds     == IF signed THEN Tail(s) ELSE s
    IN  IF ds = <<>> \/ \E i \in 1..Len(ds) : ~IsDigit(ds[i])
        THEN [err |-> TRUE, n |-> 0]
        ELSE [err |-> FALSE,
              n |-> IF signed /\ s[1] = "-" THEN 0 - DigitsValue(ds) ELSE DigitsValue(ds)]

\* decimal text of a number 0..99
Itoa(n) == IF n < 10 THEN <<Digits[n + 1]>>
           ELSE <<Digits[(n \div 10) + 1], Digits[(n % 10) + 1]>>

----------------------------------------------------------------------------
(* JSON values *)

JNum(n)  == [t |-> "num", n |-> n]
JStr(s)  == [t |-> "str", s |-> s]
JObj(o)  == [t |-> "obj", o |-> o]
JArr(a)  == [t |-> "arr", a |-> a]
JBad     == [t |-> "malformed"]

NoBody   == [t |-> "none"]
Text(s)  == [t |-> "text", s |-> s]

Has(o, k) == k \in DOMAIN o

----------------------------------------------------------------------------
(* Requests *)

Slash  == <<"/">>
PItems == <<"/", "i", "t", "e", "m", "s">>
PUsers == <<"/", "u", "s", "e", "r", "s">>
POther == <<"/", "x">>

Methods == {"GET", "POST", "DELETE", "PUT"}

\* the id segment of a path: decimal ids, the empty string, a word, a negative number
IdStrs == {Itoa(n) : n \in 1..MaxItems} \cup {<<>>, <<"a", "b", "c">>, <<"-", "1">>}

ItemBodies == {
    JBad,
    JObj([name |-> JStr("Tablet"), price |-> JStr("x")]),
    JObj([name |-> JStr("Tablet"), price |-> JNum(300)]),
    JObj([id |-> JNum(7), name |-> JStr("Tablet"), price |-> JNum(300)]) }

UserBodies == {
    JBad,
    JObj([first_name |-> JNum(5)]),
    JObj([first_name |-> JStr("Ada"), last_name |-> JStr("Lovelace")]),
    JObj([name |-> JStr("John Doe")]) }

Request(prog, method, path, body) ==
    [prog |-> prog, method |-> method, path |-> path, body |-> body]

\* a body is sent with POST only
Requests(prog, paths, bodies) ==
    {Request(prog, "POST", p, b) : p \in paths, b \in bodies}
        \cup {Request(prog, m, p, NoBody) : m \in Methods \ {"POST"}, p \in paths}

DocRequests   == Requests("gpt1doc", {PItems, POther} \cup {PItems \o Slash \o s : s \in IdStrs},
                          ItemBodies)
TopRequests   == Requests("gpt1", {Slash, Slash \o Itoa(1), Slash \o <<"a", "b", "c">>}, {NoBody})
TiagoRequests == Requests("tiago1", {Slash, PUsers, POther}, {NoBody})
UserRequests  == Requests("users", {PUsers}, UserBodies)

\* what net/http answers when nothing was written by the handler
ImplicitOK == [code |-> 200, ctype |-> "", body |-> NoBody]

\* http.Error / http.NotFound
httpError(msg, code) == [code |-> code, ctype |-> "text/plain", body |-> Text(msg)]

----------------------------------------------------------------------------
(* gpt-1, documented server *)

Item(id, name, price) == [ID |-> id, Name |-> name, Price |-> price]

items0 == <<Item(1, "Laptop", 1000), Item(2, "Phone", 500)>>

\* encoding/json with the tags `json:"id"`, `json:"name"`, `json:"price"`
encodeItem(item) ==
    JObj([id |-> JNum(item.ID), name |-> JStr(item.Name), price |-> JNum(item.Price)])

encodeItems(s) == JArr([i \in 1..Len(s) |-> encodeItem(s[i])])

encodeMap(k, v) == JObj([x \in {k} |-> JStr(v)])

\* json.NewDecoder(r.Body).Decode(&newItem)
decodeItem(body) ==
    LET zero == Item(0, "", 0)
        bad(k, t) == Has(body.o, k) /\ body.o[k].t # t
    IN  IF body.t # "obj" THEN [err |-> TRUE, v |-> zero]
        ELSE IF bad("id", "num") \/ bad("name", "str") \/ bad("price", "num")
        THEN [err |-> TRUE, v |-> zero]
        ELSE [err |-> FALSE,
              v |-> Item(IF Has(body.o, "id") THEN body.o["id"].n ELSE 0,
                         IF Has(body.o, "name") THEN body.o["name"].s ELSE "",
                         IF Has(body.o, "price") THEN body.o["price"].n ELSE 0)]

respondWithJSON(code, payload) ==
    [code |-> code, ctype |-> "application/json", body |-> payload]

\* findItemByID without the return inside the loop: the last match wins
findItemByIDLast(s, id) ==
    IF \E i \in 1..Len(s) : s[i].ID = id
    THEN CHOOSE i \in 1..Len(s) : s[i].ID = id /\ \A j \in (i + 1)..Len(s) : s[j].ID # id
    ELSE 0

\* index (1-based) of the first item with the id, 0 when there is none
findItemByID(s, id) ==
    IF \E i \in 1..Len(s) : s[i].ID = id
    THEN CHOOSE i \in 1..Len(s) : s[i].ID = id /\ \A j \in 1..(i - 1) : s[j].ID # id
    ELSE 0

\* append(items[:index], items[index+1:]...)
RemoveAt(s, index) == SubSeq(s, 1, index - 1) \o SubSeq(s, index + 1, Len(s))

getItems(r) ==
    /\ resp' = respondWithJSON(200, encodeItems(items))
    /\ UNCHANGED <<items, lastId>>

getItem(r) ==
    LET a == Atoi(TrimPrefix(r.path, PItems \o Slash))
        index == findItemByID(items, a.n)
    IN  /\ resp' = IF a.err
                   THEN respondWithJSON(400, encodeMap("error", "Invalid item ID"))
                   ELSE IF index = 0
                   THEN respondWithJSON(404, encodeMap("error", "Item not found"))
                   ELSE respondWithJSON(200, encodeItem(items[index]))
        /\ UNCHANGED <<items, lastId>>

createItem(r) ==
    LET d == decodeItem(r.body)
        newItem == [d.v EXCEPT !.ID = Len(items) + 1]
    IN  IF d.err
        THEN /\ resp' = respondWithJSON(400, encodeMap("error", "Invalid request body"))
             /\ UNCHANGED <<items, lastId>>
        ELSE /\ Len(items) < MaxItems
             /\ items' = Append(items, newItem)
             /\ lastId' = newItem.ID
             /\ resp' = respondWithJSON(201, encodeItem(newItem))

deleteItem(r) ==
    LET a == Atoi(TrimPrefix(r.path, PItems \o Slash))
        index == findItemByID(items, a.n)
    IN  IF a.err
        THEN /\ resp' = respondWithJSON(400, encodeMap("error", "Invalid item ID"))
             /\ UNCHANGED <<items, lastId>>
        ELSE IF index = 0
        THEN /\ resp' = respondWithJSON(404, encodeMap("error", "Item not found"))
             /\ UNCHANGED <<items, lastId>>
        ELSE /\ items' = RemoveAt(items, index)
             /\ resp' = respondWithJSON(200, encodeMap("message", "Item deleted"))
             /\ UNCHANGED lastId

methodNotAllowed(r) ==
    /\ resp' = respondWithJSON(405, encodeMap("error", "Method not allowed"))
    /\ UNCHANGED <<items, lastId>>

\* http.NotFound of the ServeMux for a path no pattern matches
muxNotFound(r) ==
    /\ resp' = httpError("404 page not found", 404)
    /\ UNCHANGED <<items, lastId>>

\* main: the patterns "/items" and "/items/" and the method switches
main(method, path) ==
    IF path = PItems
    THEN CASE method = "GET"  -> "getItems"
           [] method = "POST" -> "createItem"
           [] OTHER           -> "methodNotAllowed"
    ELSE IF HasPrefix(path, PItems \o Slash)
    THEN CASE method = "GET"    -> "getItem"
           [] method = "DELETE" -> "deleteItem"
           [] OTHER             -> "methodNotAllowed"
    ELSE "muxNotFound"

DocFrame == UNCHANGED <<users, concVars, chanVars>>

GetItems ==
    \E r \in DocRequests :
        /\ main(r.method, r.path) = "getItems"
        /\ req' = r
        /\ getItems(r)
        /\ DocFrame

GetItem ==
    \E r \in DocRequests :
        /\ main(r.method, r.path) = "getItem"
        /\ req' = r
        /\ getItem(r)
        /\ DocFrame

CreateItem ==
    \E r \in DocRequests :
        /\ main(r.method, r.path) = "createItem"
        /\ req' = r
        /\ createItem(r)
        /\ DocFrame

DeleteItem ==
    \E r \in DocRequests :
        /\ main(r.method, r.path) = "deleteItem"
        /\ req' = r
        /\ deleteItem(r)
        /\ DocFrame

MethodNotAllowed ==
    \E r \in DocRequests :
        /\ main(r.method, r.path) = "methodNotAllowed"
        /\ req' = r
        /\ methodNotAllowed(r)
        /\ DocFrame

MuxNotFound ==
    \E r \in DocRequests :
        /\ main(r.method, r.path) = "muxNotFound"
        /\ req' = r
        /\ muxNotFound(r)
        /\ DocFrame

----------------------------------------------------------------------------
(* gpt-1, compiled program *)

itemsTop == <<Item(1, "Laptop", 1000), Item(2, "Phone", 500), Item(3, "Tablet", 300)>>

respondWithJSONTop(code, payload) ==
    [code |-> code, ctype |-> "application.json", body |-> payload]

getItemsTop(r) == resp' = respondWithJSONTop(200, encodeItems(itemsTop))

\* defined in the file, called from nowhere
getItemTop(r) == resp' = respondWithJSONTop(200, JStr("test item"))

methodNotAllowedTop(r) ==
    resp' = respondWithJSONTop(405, encodeMap("error", "Method not allowed"))

\* main: the pattern "/" matches every path
mainTop(method, path) ==
    CASE method = "GET" -> "getItems"
      [] OTHER          -> "methodNotAllowed"

TopFrame == UNCHANGED <<items, lastId, users, concVars, chanVars>>

GetItemsTop ==
    \E r \in TopRequests :
        /\ mainTop(r.method, r.path) = "getItems"
        /\ req' = r
        /\ getItemsTop(r)
        /\ TopFrame

MethodNotAllowedTop ==
    \E r \in TopRequests :
        /\ mainTop(r.method, r.path) = "methodNotAllowed"
        /\ req' = r
        /\ methodNotAllowedTop(r)
        /\ TopFrame

----------------------------------------------------------------------------
(* tiago/1 *)

ServeHTTP(r) ==
    resp' = IF r.method = "GET"
            THEN IF r.path = Slash THEN [ImplicitOK EXCEPT !.body = Text("Hello root")]
                 ELSE IF r.path = PUsers THEN [ImplicitOK EXCEPT !.body = Text("Hello users")]
                 ELSE [ImplicitOK EXCEPT !.body = Text("method not allowed")]
            ELSE ImplicitOK

Tiago ==
    \E r \in TiagoRequests :
        /\ req' = r
        /\ ServeHTTP(r)
        /\ TopFrame

----------------------------------------------------------------------------
(* users server.  The literal of newUsers in getUserHandler lacks its
   closing brace; the handler is modelled as it reads once the literal is
   closed.  Encoding a []User cannot fail, so the http.Error branch of
   getUserHandler is never taken and the status stays the implicit 200 of
   the first write. *)

User(first, last) == [FirstName |-> first, LastName |-> last]

\* encoding/json with the tags `json:"first_name"`, `json:"last_name"`
encodeUser(u) == JObj([first_name |-> JStr(u.FirstName), last_name |-> JStr(u.LastName)])

encodeUsers(s) == JArr([i \in 1..Len(s) |-> encodeUser(s[i])])

\* json.NewDecoder(r.Body).Decode(&payloadUser)
decodeUser(body) ==
    LET zero == User("", "")
        bad(k, t) == Has(body.o, k) /\ body.o[k].t # t
    IN  IF body.t # "obj" THEN [err |-> TRUE, v |-> zero]
        ELSE IF bad("first_name", "str") \/ bad("last_name", "str")
        THEN [err |-> TRUE, v |-> zero]
        ELSE [err |-> FALSE,
              v |-> User(IF Has(body.o, "first_name") THEN body.o["first_name"].s ELSE "",
                         IF Has(body.o, "last_name") THEN body.o["last_name"].s ELSE "")]

getUserHandler(r) ==
    LET newUsers == <<User("Tiago", "Silva")>>
    IN  /\ Len(users) < MaxUsers
        /\ users' = users \o newUsers
        /\ resp' = [code |-> 200, ctype |-> "application/json", body |-> encodeUsers(users')]

createUserHandler(r) ==
    LET d == decodeUser(r.body)
        u == User(d.v.FirstName, d.v.LastName)
    IN  IF d.err
        THEN /\ resp' = httpError("error decoding payload", 500)
             /\ UNCHANGED users
        ELSE /\ Len(users) < MaxUsers
             /\ users' = Append(users, u)
             /\ resp' = [code |-> 201, ctype |-> "", body |-> NoBody]

\* main: the patterns "GET /users" and "POST /users"
mainUsers(method, path) ==
    IF path = PUsers /\ method = "GET" THEN "getUserHandler"
    ELSE IF path = PUsers /\ method = "POST" THEN "createUserHandler"
    ELSE "none"

UsrFrame == UNCHANGED <<items, lastId, concVars, chanVars>>

GetUserHandler ==
    \E r \in UserRequests :
        /\ mainUsers(r.method, r.path) = "getUserHandler"
        /\ req' = r
        /\ getUserHandler(r)
        /\ UsrFrame

CreateUserHandler ==
    \E r \in UserRequests :
        /\ mainUsers(r.method, r.path) = "createUserHandler"
        /\ req' = r
        /\ createUserHandler(r)
        /\ UsrFrame

----------------------------------------------------------------------------
(* createItem of the documented gpt-1 server, run by concurrent request
   goroutines.  net/http serves every request in its own goroutine and the
   code takes no lock, so the steps of createItem interleave: len(items)
   reads the slice header, append reads the header, writes the element (in
   place when there is capacity, after growing into a new array otherwise)
   and the assignment stores the new header. *)

Creators == 1..NumCreators

ZeroItem == Item(0, "", 0)

\* the records a slice header denotes (a header is loaded and stored whole)
View(as, h) == SubSeq(as[h.arr], 1, h.len)

InitConc ==
    /\ arrays = <<items0>>
    /\ hdr = [arr |-> 1, len |-> Len(items0), cap |-> Len(items0)]
    /\ cpc = [p \in Creators |-> "start"]
    /\ cbody = [p \in Creators |-> NoBody]
    /\ cnew = [p \in Creators |-> ZeroItem]
    /\ chdr = [p \in Creators |-> [arr |-> 0, len |-> 0, cap |-> 0]]

\* var newItem Item; json.NewDecoder(r.Body).Decode(&newItem)
cDecode(p) ==
    /\ cpc[p] = "start"
    /\ \E b \in ItemBodies :
          LET d == decodeItem(b)
          IN  /\ cbody' = [cbody EXCEPT ![p] = b]
              /\ cnew' = [cnew EXCEPT ![p] = d.v]
              /\ cpc' = [cpc EXCEPT ![p] = IF d.err THEN "done400" ELSE "genid"]
    /\ UNCHANGED <<arrays, hdr, chdr, items>>

\* newItem.ID = len(items) + 1
cGenId(p) ==
    /\ cpc[p] = "genid"
    /\ cnew' = [cnew EXCEPT ![p].ID = hdr.len + 1]
    /\ cpc' = [cpc EXCEPT ![p] = "read"]
    /\ UNCHANGED <<arrays, hdr, cbody, chdr, items>>

\* append(items, newItem): load the slice header
cAppendRead(p) ==
    /\ cpc[p] = "read"
    /\ chdr' = [chdr EXCEPT ![p] = hdr]
    /\ cpc' = [cpc EXCEPT ![p] = "write"]
    /\ UNCHANGED <<arrays, hdr, cbody, cnew, items>>

\* append(items, newItem): store the element, growing the array when full
cAppendWrite(p) ==
    LET h == chdr[p]
        grown == SubSeq(arrays[h.arr], 1, h.len) \o <<cnew[p]>>
                    \o [k \in 1..(2 * h.cap - h.len - 1) |-> ZeroItem]
    IN  /\ cpc[p] = "write"
        /\ IF h.len < h.cap
           THEN /\ arrays' = [arrays EXCEPT ![h.arr][h.len + 1] = cnew[p]]
                /\ chdr' = [chdr EXCEPT ![p].len = h.len + 1]
           ELSE /\ arrays' = Append(arrays, grown)
                /\ chdr' = [chdr EXCEPT ![p] = [arr |-> Len(arrays) + 1,
                                                len |-> h.len + 1, cap |-> 2 * h.cap]]
        /\ cpc' = [cpc EXCEPT ![p] = "store"]
        /\ items' = View(arrays', hdr)
        /\ UNCHANGED <<hdr, cbody, cnew>>

\* items = append(...): store the new header; respondWithJSON(201, newItem)
cAppendStore(p) ==
    /\ cpc[p] = "store"
    /\ hdr' = chdr[p]
    /\ cpc' = [cpc EXCEPT ![p] = "done201"]
    /\ items' = View(arrays, hdr')
    /\ UNCHANGED <<arrays, cbody, cnew, chdr>>

ConcFrame == UNCHANGED <<users, req, resp, lastId, chanVars>>

ConcDecode      == \E p \in Creators : cDecode(p) /\ ConcFrame
ConcGenId       == \E p \in Creators : cGenId(p) /\ ConcFrame
ConcAppendRead  == \E p \in Creators : cAppendRead(p) /\ ConcFrame
ConcAppendWrite == \E p \in Creators : cAppendWrite(p) /\ ConcFrame
ConcAppendStore == \E p \in Creators : cAppendStore(p) /\ ConcFrame

NextConc ==
    \/ ConcDecode
    \/ ConcGenId
    \/ ConcAppendRead
    \/ ConcAppendWrite
    \/ ConcAppendStore

----------------------------------------------------------------------------
(* The concurrent API handler *)

NumFetch == 2       \* for i := 1; i <= 2; i++
ChanCap  == 2       \* make(chan Data, 2)

Fetchers == 1..NumFetch

Data(id, name) == [ID |-> id, Name |-> name]

\* Data{ID: id, Name: fmt.Sprintf("Data %d", id)}
fetchData(id) == Data(id, <<"D", "a", "t", "a", " ">> \o Itoa(id))

encodeData(d) == JObj([id |-> JNum(d.ID), name |-> JStr(d.Name)])

\* json encodes a nil slice as null
encodeDatas(s) == IF s = <<>> THEN [t |-> "null"]
                  ELSE JArr([i \in 1..Len(s) |-> encodeData(s[i])])

InitChan ==
    /\ hpc = "loop"
    /\ hi = 1
    /\ fpc = [i \in Fetchers |-> "unborn"]
    /\ fdata = [i \in Fetchers |-> Data(0, <<>>)]
    /\ kpc = "unborn"
    /\ wg = 0
    /\ results = <<>>
    /\ closed = FALSE
    /\ response = <<>>
    /\ panicked = FALSE

\* a closer that does not wait for the fetch goroutines
wgWaitSkipped == TRUE

\* wg.Wait() returns once the counter is zero
wgWait == wg = 0

\* wg.Add(1)
hAdd ==
    /\ hpc = "loop" /\ hi <= NumFetch
    /\ wg' = wg + 1
    /\ hpc' = "go"
    /\ UNCHANGED <<hi, fpc, fdata, kpc, results, closed, response, panicked, resp>>

\* go func(id int) {...}(i); i++
hGo ==
    /\ hpc = "go"
    /\ fpc' = [fpc EXCEPT ![hi] = "sleep"]
    /\ hi' = hi + 1
    /\ hpc' = "loop"
    /\ UNCHANGED <<fdata, kpc, wg, results, closed, response, panicked, resp>>

\* go func() { wg.Wait(); close(results) }()
hGoCloser ==
    /\ hpc = "loop" /\ hi > NumFetch
    /\ kpc' = "wait"
    /\ hpc' = "range"
    /\ UNCHANGED <<hi, fpc, fdata, wg, results, closed, response, panicked, resp>>

\* for data := range results { response = append(response, data) }
hRecv ==
    /\ hpc = "range" /\ results # <<>>
    /\ response' = Append(response, Head(results))
    /\ results' = Tail(results)
    /\ UNCHANGED <<hpc, hi, fpc, fdata, kpc, wg, closed, panicked, resp>>

\* the range loop ends when the channel is closed and drained
hRangeEnd ==
    /\ hpc = "range" /\ results = <<>> /\ closed
    /\ hpc' = "encode"
    /\ UNCHANGED <<hi, fpc, fdata, kpc, wg, results, closed, response, panicked, resp>>

\* json.NewEncoder(w).Encode(response)
hEncode ==
    /\ hpc = "encode"
    /\ resp' = [code |-> 200, ctype |-> "application/json", body |-> encodeDatas(response)]
    /\ hpc' = "done"
    /\ UNCHANGED <<hi, fpc, fdata, kpc, wg, results, closed, response, panicked>>

\* fetchData(id): time.Sleep(2 * time.Second)
fSleep(i) ==
    /\ fpc[i] = "sleep"
    /\ fpc' = [fpc EXCEPT ![i] = "fetch"]
    /\ UNCHANGED <<hpc, hi, fdata, kpc, wg, results, closed, response, panicked, resp>>

\* fetchData(id): return Data{...}
fFetch(i) ==
    /\ fpc[i] = "fetch"
    /\ fdata' = [fdata EXCEPT ![i] = fetchData(i)]
    /\ fpc' = [fpc EXCEPT ![i] = "send"]
    /\ UNCHANGED <<hpc, hi, kpc, wg, results, closed, response, panicked, resp>>

\* results <- ...: panics on a closed channel, waits while the buffer is full
fSend(i) ==
    /\ fpc[i] = "send"
    /\ closed \/ Len(results) < ChanCap
    /\ IF closed
       THEN /\ panicked' = TRUE
            /\ UNCHANGED <<results, fpc>>
       ELSE /\ results' = Append(results, fdata[i])
            /\ fpc' = [fpc EXCEPT ![i] = "deferDone"]
            /\ UNCHANGED panicked
    /\ UNCHANGED <<hpc, hi, fdata, kpc, wg, closed, response, resp>>

\* defer wg.Done(): panics on a negative counter
fDone(i) ==
    /\ fpc[i] = "deferDone"
    /\ IF wg = 0
       THEN /\ panicked' = TRUE
            /\ UNCHANGED <<wg, fpc>>
       ELSE /\ wg' = wg - 1
            /\ fpc' = [fpc EXCEPT ![i] = "exit"]
            /\ UNCHANGED panicked
    /\ UNCHANGED <<hpc, hi, fdata, kpc, results, closed, response, resp>>

\* wg.Wait()
kWait ==
    /\ kpc = "wait" /\ wgWait
    /\ kpc' = "close"
    /\ UNCHANGED <<hpc, hi, fpc, fdata, wg, results, closed, response, panicked, resp>>

\* close(results): panics when already closed
kClose ==
    /\ kpc = "close"
    /\ IF closed
       THEN panicked' = TRUE /\ UNCHANGED <<closed, kpc>>
       ELSE closed' = TRUE /\ kpc' = "exit" /\ UNCHANGED panicked
    /\ UNCHANGED <<hpc, hi, fpc, fdata, wg, results, response, resp>>

\* a panic in any goroutine ends the process
ChanFrame == ~panicked /\ UNCHANGED <<items, users, req, lastId, concVars>>

HandlerAdd      == hAdd /\ ChanFrame
HandlerGo       == hGo /\ ChanFrame
HandlerGoCloser == hGoCloser /\ ChanFrame
HandlerRecv     == hRecv /\ ChanFrame
HandlerRangeEnd == hRangeEnd /\ ChanFrame
HandlerEncode   == hEncode /\ ChanFrame
Sleep(i)        == fSleep(i) /\ ChanFrame
Fetch(i)        == fFetch(i) /\ ChanFrame
Send(i)         == fSend(i) /\ ChanFrame
Done(i)         == fDone(i) /\ ChanFrame
CloserWait      == kWait /\ ChanFrame
CloserClose     == kClose /\ ChanFrame

HandlerStep ==
    HandlerAdd \/ HandlerGo \/ HandlerGoCloser \/ HandlerRecv \/ HandlerRangeEnd \/ HandlerEncode

NextHandler ==
    \/ HandlerAdd
    \/ HandlerGo
    \/ HandlerGoCloser
    \/ HandlerRecv
    \/ HandlerRangeEnd
    \/ HandlerEncode
    \/ \E i \in Fetchers : Sleep(i)
    \/ \E i \in Fetchers : Fetch(i)
    \/ \E i \in Fetchers : Send(i)
    \/ \E i \in Fetchers : Done(i)
    \/ CloserWait
    \/ CloserClose

----------------------------------------------------------------------------
(* Sequential requests *)

InitSeq ==
    /\ items = items0
    /\ users = <<>>
    /\ req = Request("none", "", <<>>, NoBody)
    /\ resp = [code |-> 0, ctype |-> "", body |-> NoBody]
    /\ lastId = 0

Init == InitSeq /\ InitConc /\ InitChan

Next ==
    \/ GetItems
    \/ GetItem
    \/ CreateItem
    \/ DeleteItem
    \/ MethodNotAllowed
    \/ MuxNotFound
    \/ GetItemsTop
    \/ MethodNotAllowedTop
    \/ Tiago

Spec == Init /\ [][Next]_vars

NextUsers ==
    \/ GetUserHandler
    \/ CreateUserHandler

SpecUsers == Init /\ [][NextUsers]_vars

SpecConc == Init /\ [][NextConc]_vars

\* the Go scheduler runs every goroutine that can take a step
SpecHandler ==
    /\ Init /\ [][NextHandler]_vars
    /\ WF_vars(HandlerStep)
    /\ \A i \in Fetchers : WF_vars(Sleep(i) \/ Fetch(i) \/ Send(i) \/ Done(i))
    /\ WF_vars(CloserWait \/ CloserClose)

----------------------------------------------------------------------------
(* Vocabulary of the claims *)

ErrorEnvelope(b) == b.t = "obj" /\ DOMAIN b.o = {"error"} /\ b.o["error"].t = "str"

NoDuplicateIds(s) == \A i, j \in 1..Len(s) : i # j => s[i].ID # s[j].ID

\* the id segment of a collection/{id} path of the documented gpt-1 server
DocIdStr(r) == TrimPrefix(r.path, PItems \o Slash)

DocById(r)   == r.prog = "gpt1doc" /\ HasPrefix(r.path, PItems \o Slash)
DocCreate(r) == r.prog = "gpt1doc" /\ r.method = "POST" /\ r.path = PItems
DocDelete(r) == DocById(r) /\ r.method = "DELETE"
DocGet(r)    == DocById(r) /\ r.method = "GET"
DocList(r)   == r.prog = "gpt1doc" /\ r.method = "GET" /\ r.path = PItems

\* the compiled gpt-1 program serves its collection at "/"
TopList(r) == r.prog = "gpt1" /\ r.method = "GET" /\ r.path = Slash
TopGet(r)  == r.prog = "gpt1" /\ r.method = "GET" /\ r.path # Slash
TopIdStr(r) == TrimPrefix(r.path, Slash)

UserList(r)   == r.prog = "users" /\ r.method = "GET" /\ r.path = PUsers
UserCreate(r) == r.prog = "users" /\ r.method = "POST" /\ r.path = PUsers

----------------------------------------------------------------------------
(* C1: the ids returned by successive successful creates are strictly
   increasing, also when deletes happen in between: each create returns an
   id greater than the one the previous create returned. *)
C1_IdsStrictlyIncreasing ==
    [][(DocCreate(req') /\ resp'.code = 201) => resp'.body.o["id"].n > lastId]_vars

(* C2: in every reachable state of the documented gpt-1 server no two
   records of the collection have the same id. *)
C2_UniqueIds == NoDuplicateIds(items)

(* C4: when a delete of an id succeeded and the next request is a get of
   the same id, the get is answered 404 with an error envelope. *)
C4_GetAfterDeleteNotFound ==
    [][(DocDelete(req) /\ resp.code = 200 /\ DocGet(req') /\ req'.path = req.path)
          => (resp'.code = 404 /\ ErrorEnvelope(resp'.body))]_vars

(* C5: a successful delete removes exactly the first record whose id
   matches and keeps every other record, unmodified and in order; a delete
   of an absent id answers 404 and leaves the collection unchanged. *)
C5_DeleteFrame ==
    [][DocDelete(req') =>
        LET a == Atoi(DocIdStr(req'))
            present == \E k \in 1..Len(items) : items[k].ID = a.n
        IN  /\ resp'.code = 200 =>
                \E k \in 1..Len(items) :
                    /\ ~a.err /\ items[k].ID = a.n
                    /\ \A j \in 1..(k - 1) : items[j].ID # a.n
                    /\ Len(items') = Len(items) - 1
                    /\ \A j \in 1..(k - 1) : items'[j] = items[j]
                    /\ \A j \in k..Len(items') : items'[j] = items[j + 1]
            /\ (~a.err /\ ~present) =>
                (resp'.code = 404 /\ ErrorEnvelope(resp'.body) /\ items' = items)
            /\ (~a.err /\ present) => resp'.code = 200]_vars

\* a delete succeeded on a collection holding the id twice: the later
\* record with that id is still there
C5_Witness ==
    /\ DocDelete(req) /\ resp.code = 200
    /\ \E k \in 1..Len(items) : items[k].ID = Atoi(DocIdStr(req)).n
    /\ Len(items) >= 2

(* C6: a list request is answered 200 with exactly the records of the
   collection in order, does not change the collection, and right after a
   successful create its last element is the created record (equal to the
   request's record except for the id). *)
C6_ListIsPure ==
    [][(DocList(req') \/ TopList(req') \/ UserList(req')) =>
        /\ resp'.code = 200
        /\ items' = items /\ users' = users
        /\ resp'.body = CASE DocList(req')  -> encodeItems(items)
                          [] TopList(req')  -> encodeItems(itemsTop)
                          [] UserList(req') -> encodeUsers(users)
        /\ (DocList(req') /\ DocCreate(req) /\ resp.code = 201) =>
              LET r == decodeItem(req.body).v
                  last == resp'.body.a[Len(resp'.body.a)]
              IN  /\ last.o["name"] = JStr(r.Name)
                  /\ last.o["price"] = JNum(r.Price)
        /\ (UserList(req') /\ UserCreate(req) /\ resp.code = 201) =>
              resp'.body.a[Len(resp'.body.a)] = encodeUser(decodeUser(req.body).v)]_vars

\* a method that the program does not support on a path it recognizes
Unsupported(r) ==
    \/ r.prog = "gpt1doc" /\ r.path = PItems /\ r.method \notin {"GET", "POST"}
    \/ DocById(r) /\ r.method \notin {"GET", "DELETE"}
    \/ r.prog = "gpt1" /\ r.method # "GET"
    \/ r.prog = "tiago1" /\ r.path \in {Slash, PUsers} /\ r.method # "GET"

(* C7: an unsupported method on a recognized path is answered 405 with the
   body {"error":"Method not allowed"} and the collection is unchanged. *)
C7_MethodNotAllowed ==
    [][Unsupported(req') =>
        /\ resp'.code = 405
        /\ resp'.body = encodeMap("error", "Method not allowed")
        /\ items' = items /\ users' = users]_vars

(* C8: a create whose body does not decode is answered 400 with an error
   envelope and appends nothing (the next id stays the same); a create whose
   body decodes is answered 201 with the created record and appends exactly
   that one record. *)
C8_CreateStatus ==
    [][(DocCreate(req') \/ UserCreate(req')) =>
        LET err == IF DocCreate(req') THEN decodeItem(req'.body).err
                   ELSE decodeUser(req'.body).err
        IN  IF err
            THEN /\ resp'.code = 400 /\ ErrorEnvelope(resp'.body)
                 /\ items' = items /\ users' = users
            ELSE /\ resp'.code = 201
                 /\ IF DocCreate(req')
                    THEN /\ Len(items') = Len(items) + 1
                         /\ SubSeq(items', 1, Len(items)) = items
                         /\ resp'.body = encodeItem(items'[Len(items')])
                         /\ users' = users
                    ELSE /\ Len(users') = Len(users) + 1
                         /\ SubSeq(users', 1, Len(users)) = users
                         /\ resp'.body = encodeUser(users'[Len(users')])
                         /\ items' = items]_vars

(* C9: a get by id is answered 400 with an error envelope when the id
   segment is not an integer, 404 with an error envelope when no record has
   the id, and otherwise 200 with a record of the collection that has the
   id; the collection is unchanged in all three cases. *)
C9_GetStatus ==
    [][(DocGet(req') \/ TopGet(req')) =>
        LET a == Atoi(IF DocGet(req') THEN DocIdStr(req') ELSE TopIdStr(req'))
            store == IF DocGet(req') THEN items ELSE itemsTop
        IN  /\ items' = items
            /\ IF a.err THEN resp'.code = 400 /\ ErrorEnvelope(resp'.body)
               ELSE IF \A k \in 1..Len(store) : store[k].ID # a.n
               THEN resp'.code = 404 /\ ErrorEnvelope(resp'.body)
               ELSE /\ resp'.code = 200
                    /\ \E k \in 1..Len(store) :
                          store[k].ID = a.n /\ resp'.body = encodeItem(store[k])]_vars

(* C3: when concurrent creates have all finished, every record that a
   create answered with 201 is in the collection, none was lost, and no two
   records of the collection share an id. *)
C3_ConcurrentCreates ==
    (\A p \in Creators : cpc[p] \in {"done400", "done201"}) =>
        /\ \A p \in Creators :
              cpc[p] = "done201" => \E k \in 1..Len(items) : items[k] = cnew[p]
        /\ Len(items) = Len(items0) + Cardinality({p \in Creators : cpc[p] = "done201"})
        /\ NoDuplicateIds(items)

\* what must hold of the handler at every moment
HandlerSafe ==
    /\ ~panicked
    /\ closed => \A i \in Fetchers : fpc[i] \in {"deferDone", "exit"}
    /\ \A i \in Fetchers : fpc[i] = "send" => (~closed /\ Len(results) < ChanCap)
    /\ hpc = "done" =>
          /\ resp.body.t = "arr" /\ Len(resp.body.a) = NumFetch
          /\ \A i \in Fetchers :
                Cardinality({k \in 1..Len(resp.body.a) :
                                resp.body.a[k] = encodeData(fetchData(i))}) = 1

(* C10: in the concurrent API handler the channel is closed only after
   both fetch goroutines have sent, no send blocks or hits a closed channel,
   the collecting loop terminates and the response holds exactly one result
   for each of the ids 1 and 2. *)
C10_HandlerCollectsBoth == []HandlerSafe /\ <>(hpc = "done")

\* the handler has answered, with the result of id 2 ahead of that of id 1
C10_Witness ==
    /\ hpc = "done" /\ closed
    /\ resp.body.t = "arr" /\ resp.body.a[1] = encodeData(fetchData(2))

====
